---- MODULE Spec2Model ----
(***************************************************************************)
(* A model of the AlarmSchedule library                                    *)
(* (contracts/contracts/library/AlarmSchedule.sol): the Schedule struct,   *)
(* its state changing functions init, start and recordEntry, and its view  *)
(* functions.  Time is in seconds, as block.timestamp is.  A call that     *)
(* reverts (a failed require, the started modifier, or a checked           *)
(* arithmetic panic) leaves storage as it was and reports its reason.      *)
(* The uint32 counters of alarmEntries stay far below 2^32: the number of  *)
(* confirmations recorded is bounded by MaxEntries.                        *)
(*                                                                         *)
(* With it, a model of two stores of the client                            *)
(* (client/src/lib/dappStores.ts): one UserAlarmStore with its countdown,  *)
(* and the record of the user's alarms kept by MakeUserAlarmsRecord with   *)
(* its asynchronous fetches.                                               *)
(***************************************************************************)
EXTENDS Integers, Sequences, FiniteSets, TLC

VARIABLES schedule, blockTimestamp, lastCall, userAlarm, userAlarmsRecord

vars == <<schedule, blockTimestamp, lastCall, userAlarm, userAlarmsRecord>>

\* The state of the contract and the state of the client
contractVars == <<schedule, blockTimestamp, lastCall>>

clientVars == <<userAlarm, userAlarmsRecord>>

----------------------------------------------------------------------------
(* Solidity time units *)

DAY == 86400

HOUR == 3600

(* The storage of a Schedule before any function has written to it. *)
EmptySchedule ==
    [ alarmTime           |-> 0,
      alarmDays           |-> << >>,
      submissionWindow    |-> 0,
      timezoneOffset      |-> 0,
      activationTimestamp |-> 0,
      lastEntryTime       |-> 0,
      initialized         |-> FALSE,
      alarmEntries        |-> <<0, 0, 0, 0, 0, 0, 0>> ]

(* What a call gives back: err is "OK" or the revert reason, self the      *)
(* storage after the call, ret the returned value (0 when there is none).   *)
Return(self, ret) == [err |-> "OK", self |-> self, ret |-> ret]

Revert(self, reason) == [err |-> reason, self |-> self, ret |-> 0]

----------------------------------------------------------------------------
(* Pure helpers *)

\* uint(int(timestamp) + offset).  Every instant of the model is later than
\* 2023, where the sum is positive and the cast to uint changes nothing.
_offsetTimestamp(timestamp, offset) == timestamp + offset

\* 1 = Sunday, 7 = Saturday
_dayOfWeek(timestamp) ==
    LET days == timestamp \div DAY
    IN  ((days + 4) % 7) + 1

RECURSIVE ValidateFrom(_, _, _)
ValidateFrom(daysActive, i, lastDay) ==
    IF i > Len(daysActive) THEN TRUE
    ELSE LET day == daysActive[i]
         IN  IF day = 0 \/ day > 7 \/ lastDay > day
             THEN FALSE
             ELSE ValidateFrom(daysActive, i + 1, day)

_validateDaysArr(daysActive) ==
    IF Len(daysActive) > 7 \/ Len(daysActive) = 0
    THEN FALSE
    ELSE ValidateFrom(daysActive, 1, 0)

----------------------------------------------------------------------------
(* Deadline arithmetic at block.timestamp = now *)

\* The comparison as it would be if the deadline's own second counted as
\* passed
_deadlinePassedTodayInclusive(self, now) ==
    (_offsetTimestamp(now, self.timezoneOffset) % DAY) >= self.alarmTime

_deadlinePassedToday(self, now) ==
    (_offsetTimestamp(now, self.timezoneOffset) % DAY) > self.alarmTime

_lastMidnightTimestamp(self, now) ==
    LET localTimestamp == _offsetTimestamp(now, self.timezoneOffset)
        lastMidnightLocal == localTimestamp - (localTimestamp % DAY)
    IN  _offsetTimestamp(lastMidnightLocal, -self.timezoneOffset)

_nextDeadlineInterval(self, now) ==
    LET lastMidnight == _lastMidnightTimestamp(self, now)
    IN  IF _deadlinePassedToday(self, now)
        THEN lastMidnight + DAY + self.alarmTime
        ELSE lastMidnight + self.alarmTime

_lastDeadlineInterval(self, now) ==
    LET lastMidnight == _lastMidnightTimestamp(self, now)
    IN  IF _deadlinePassedToday(self, now)
        THEN lastMidnight + self.alarmTime
        ELSE lastMidnight - DAY + self.alarmTime

\* NextAlarmDayFrom taking the first alarm day at or after currentDay
RECURSIVE NextAlarmDayFromInclusive(_, _, _)
NextAlarmDayFromInclusive(self, currentDay, i) ==
    IF i > Len(self.alarmDays) THEN self.alarmDays[1]
    ELSE IF self.alarmDays[i] >= currentDay THEN self.alarmDays[i]
    ELSE NextAlarmDayFromInclusive(self, currentDay, i + 1)

RECURSIVE NextAlarmDayFrom(_, _, _)
NextAlarmDayFrom(self, currentDay, i) ==
    IF i > Len(self.alarmDays) THEN self.alarmDays[1]
    ELSE IF self.alarmDays[i] > currentDay THEN self.alarmDays[i]
    ELSE NextAlarmDayFrom(self, currentDay, i + 1)

_nextAlarmDay(self, currentDay) == NextAlarmDayFrom(self, currentDay, 1)

----------------------------------------------------------------------------
(* The started modifier *)

\* started testing the initialized flag instead of activationTimestamp
startedWhenInitialized(self) == self.initialized

started(self) == self.activationTimestamp > 0

----------------------------------------------------------------------------
(* The library's functions *)

\* init without the reset of activationTimestamp
initKeepingActivation(self, alarmTime, alarmDaysOfWeek, submissionWindow, timezoneOffset) ==
    IF ~_validateDaysArr(alarmDaysOfWeek) THEN Revert(self, "INVALID_DAYS")
    ELSE IF ~(alarmTime < DAY) THEN Revert(self, "INVALID_ALARM_TIME")
    ELSE IF ~(/\ -43200 < timezoneOffset
              /\ timezoneOffset < 43200
              /\ timezoneOffset % HOUR = 0)
         THEN Revert(self, "INVALID_TIMEZONE_OFFSET")
    ELSE Return([self EXCEPT !.alarmTime = alarmTime,
                             !.alarmDays = alarmDaysOfWeek,
                             !.submissionWindow = submissionWindow,
                             !.timezoneOffset = timezoneOffset,
                             !.initialized = TRUE], 0)

\* init with the bounds of the timezone offset made inclusive
initInclusiveOffset(self, alarmTime, alarmDaysOfWeek, submissionWindow, timezoneOffset) ==
    IF ~_validateDaysArr(alarmDaysOfWeek) THEN Revert(self, "INVALID_DAYS")
    ELSE IF ~(alarmTime < DAY) THEN Revert(self, "INVALID_ALARM_TIME")
    ELSE IF ~(/\ -43200 <= timezoneOffset
              /\ timezoneOffset <= 43200
              /\ timezoneOffset % HOUR = 0)
         THEN Revert(self, "INVALID_TIMEZONE_OFFSET")
    ELSE Return([self EXCEPT !.alarmTime = alarmTime,
                             !.alarmDays = alarmDaysOfWeek,
                             !.submissionWindow = submissionWindow,
                             !.timezoneOffset = timezoneOffset,
                             !.initialized = TRUE,
                             !.activationTimestamp = 0], 0)

\* init refusing a schedule that is already initialized
initOnce(self, alarmTime, alarmDaysOfWeek, submissionWindow, timezoneOffset) ==
    IF self.initialized THEN Revert(self, "ALREADY_INITIALIZED")
    ELSE IF ~_validateDaysArr(alarmDaysOfWeek)
         THEN Revert(self, "INVALID_DAYS")
    ELSE IF ~(alarmTime < DAY) THEN Revert(self, "INVALID_ALARM_TIME")
    ELSE IF ~(/\ -43200 < timezoneOffset
              /\ timezoneOffset < 43200
              /\ timezoneOffset % HOUR = 0)
         THEN Revert(self, "INVALID_TIMEZONE_OFFSET")
    ELSE Return([self EXCEPT !.alarmTime = alarmTime,
                             !.alarmDays = alarmDaysOfWeek,
                             !.submissionWindow = submissionWindow,
                             !.timezoneOffset = timezoneOffset,
                             !.initialized = TRUE,
                             !.activationTimestamp = 0], 0)

\* init as it would be if it cleared the confirmation counters
initResettingEntries(self, alarmTime, alarmDaysOfWeek, submissionWindow, timezoneOffset) ==
    IF ~_validateDaysArr(alarmDaysOfWeek) THEN Revert(self, "INVALID_DAYS")
    ELSE IF ~(alarmTime < DAY) THEN Revert(self, "INVALID_ALARM_TIME")
    ELSE IF ~(/\ -43200 < timezoneOffset
              /\ timezoneOffset < 43200
              /\ timezoneOffset % HOUR = 0)
         THEN Revert(self, "INVALID_TIMEZONE_OFFSET")
    ELSE Return([self EXCEPT !.alarmTime = alarmTime,
                             !.alarmDays = alarmDaysOfWeek,
                             !.submissionWindow = submissionWindow,
                             !.timezoneOffset = timezoneOffset,
                             !.initialized = TRUE,
                             !.activationTimestamp = 0,
                             !.alarmEntries = <<0, 0, 0, 0, 0, 0, 0>>], 0)

init(self, alarmTime, alarmDaysOfWeek, submissionWindow, timezoneOffset) ==
    IF ~_validateDaysArr(alarmDaysOfWeek) THEN Revert(self, "INVALID_DAYS")
    ELSE IF ~(alarmTime < DAY) THEN Revert(self, "INVALID_ALARM_TIME")
    ELSE IF ~(/\ -43200 < timezoneOffset
              /\ timezoneOffset < 43200
              /\ timezoneOffset % HOUR = 0)
         THEN Revert(self, "INVALID_TIMEZONE_OFFSET")
    ELSE Return([self EXCEPT !.alarmTime = alarmTime,
                             !.alarmDays = alarmDaysOfWeek,
                             !.submissionWindow = submissionWindow,
                             !.timezoneOffset = timezoneOffset,
                             !.initialized = TRUE,
                             !.activationTimestamp = 0], 0)

\* start activating the schedule at the next deadline on an alarm day
startOnAlarmDay(self, now) ==
    IF ~self.initialized THEN Revert(self, "NOT_INITIALIZED")
    ELSE LET referenceTimestamp == _lastDeadlineInterval(self, now)
             curDay == _dayOfWeek(_offsetTimestamp(referenceTimestamp,
                                                 self.timezoneOffset))
             nextDay == _nextAlarmDay(self, curDay)
             daysAway == IF nextDay > curDay
                         THEN nextDay - curDay
                         ELSE 7 - curDay + _nextAlarmDay(self, 0)
         IN  Return([self EXCEPT !.activationTimestamp =
                                     referenceTimestamp + daysAway * DAY], 0)

start(self, now) ==
    IF ~self.initialized THEN Revert(self, "NOT_INITIALIZED")
    ELSE Return([self EXCEPT !.activationTimestamp =
                                 _nextDeadlineInterval(self, now)], 0)

RECURSIVE SumEntries(_, _)
SumEntries(alarmEntries, i) ==
    IF i > Len(alarmEntries) THEN 0
    ELSE alarmEntries[i] + SumEntries(alarmEntries, i + 1)

entries(self) ==
    IF ~started(self) THEN Revert(self, "NOT_STARTED")
    ELSE Return(self, SumEntries(self.alarmEntries, 1))

inSubmissionWindow(self, now) ==
    IF ~started(self) THEN Revert(self, "NOT_STARTED")
    ELSE IF _deadlinePassedToday(self, now) THEN Return(self, FALSE)
    ELSE IF _nextDeadlineInterval(self, now) < now THEN Revert(self, "PANIC")
    ELSE Return(self,
                (_nextDeadlineInterval(self, now) - now) < self.submissionWindow)

\* recordEntry writing lastEntryTime before it tests the submission window,
\* and reporting a closed window without undoing the write
recordEntryWritingFirst(self, now) ==
    IF ~started(self) THEN Revert(self, "NOT_STARTED")
    ELSE IF now < self.lastEntryTime THEN Revert(self, "PANIC")
    ELSE IF DAY < self.submissionWindow THEN Revert(self, "PANIC")
    ELSE LET timeSinceLastEntry == now - self.lastEntryTime
             window == inSubmissionWindow(self, now)
             written == [self EXCEPT !.lastEntryTime = now]
         IN  IF ~(timeSinceLastEntry >= DAY - self.submissionWindow)
             THEN Revert(self, "ALREADY_SUBMITTED_TODAY")
             ELSE IF window.err # "OK" THEN Revert(self, window.err)
             ELSE IF ~window.ret
                  THEN Revert(written, "NOT_IN_SUBMISSION_WINDOW")
             ELSE LET localDay ==
                          _dayOfWeek(_offsetTimestamp(now, self.timezoneOffset))
                  IN  Return([written EXCEPT
                                 !.alarmEntries[localDay] = @ + 1], 0)

\* recordEntry counting the confirmation under the UTC weekday of now
recordEntryUtcDay(self, now) ==
    IF ~started(self) THEN Revert(self, "NOT_STARTED")
    ELSE IF now < self.lastEntryTime THEN Revert(self, "PANIC")
    ELSE IF DAY < self.submissionWindow THEN Revert(self, "PANIC")
    ELSE LET timeSinceLastEntry == now - self.lastEntryTime
             window == inSubmissionWindow(self, now)
         IN  IF ~(timeSinceLastEntry >= DAY - self.submissionWindow)
             THEN Revert(self, "ALREADY_SUBMITTED_TODAY")
             ELSE IF window.err # "OK" THEN Revert(self, window.err)
             ELSE IF ~window.ret THEN Revert(self, "NOT_IN_SUBMISSION_WINDOW")
             ELSE LET utcDay == _dayOfWeek(now)
                  IN  Return([self EXCEPT
                                 !.lastEntryTime = now,
                                 !.alarmEntries[utcDay] = @ + 1], 0)

recordEntry(self, now) ==
    IF ~started(self) THEN Revert(self, "NOT_STARTED")
    ELSE IF now < self.lastEntryTime THEN Revert(self, "PANIC")
    ELSE IF DAY < self.submissionWindow THEN Revert(self, "PANIC")
    ELSE LET timeSinceLastEntry == now - self.lastEntryTime
             window == inSubmissionWindow(self, now)
         IN  IF ~(timeSinceLastEntry >= DAY - self.submissionWindow)
             THEN Revert(self, "ALREADY_SUBMITTED_TODAY")
             ELSE IF window.err # "OK" THEN Revert(self, window.err)
             ELSE IF ~window.ret THEN Revert(self, "NOT_IN_SUBMISSION_WINDOW")
             ELSE LET localDay ==
                          _dayOfWeek(_offsetTimestamp(now, self.timezoneOffset))
                  IN  Return([self EXCEPT
                                 !.lastEntryTime = now,
                                 !.alarmEntries[localDay] = @ + 1], 0)

\* MissedFrom with the partial-week test made inclusive of the current day
RECURSIVE MissedFromInclusive(_, _, _)
MissedFromInclusive(self, now, i) ==
    IF i > Len(self.alarmDays) THEN 0
    ELSE LET curDay == _dayOfWeek(_offsetTimestamp(now, self.timezoneOffset))
             activationDay ==
                 _dayOfWeek(_offsetTimestamp(self.activationTimestamp,
                                             self.timezoneOffset))
             daysPassed == (now - self.activationTimestamp) \div DAY
             minConfirmations == daysPassed \div 7
             checkDay == self.alarmDays[i]
             actual == self.alarmEntries[checkDay]
             expected ==
                 minConfirmations
                 + (IF activationDay <= checkDay /\ checkDay <= curDay
                    THEN 1 ELSE 0)
                 + (IF checkDay = curDay /\ _deadlinePassedToday(self, now)
                    THEN 1 ELSE 0)
         IN  (IF expected > actual THEN expected - actual ELSE 0)
             + MissedFromInclusive(self, now, i + 1)

RECURSIVE MissedFrom(_, _, _)
MissedFrom(self, now, i) ==
    IF i > Len(self.alarmDays) THEN 0
    ELSE LET curDay == _dayOfWeek(_offsetTimestamp(now, self.timezoneOffset))
             activationDay ==
                 _dayOfWeek(_offsetTimestamp(self.activationTimestamp,
                                           self.timezoneOffset))
             daysPassed == (now - self.activationTimestamp) \div DAY
             minConfirmations == daysPassed \div 7
             checkDay == self.alarmDays[i]
             actual == self.alarmEntries[checkDay]
             expected ==
                 minConfirmations
                 + (IF activationDay <= checkDay /\ checkDay < curDay
                    THEN 1 ELSE 0)
                 + (IF checkDay = curDay /\ _deadlinePassedToday(self, now)
                    THEN 1 ELSE 0)
         IN  (IF expected > actual THEN expected - actual ELSE 0)
             + MissedFrom(self, now, i + 1)

missedDeadlines(self, now) ==
    IF ~started(self) THEN Revert(self, "NOT_STARTED")
    ELSE IF now < self.activationTimestamp THEN Return(self, 0)
    ELSE Return(self, MissedFrom(self, now, 1))

nextDeadlineTimestamp(self, now) ==
    IF ~started(self) THEN Revert(self, "NOT_STARTED")
    ELSE LET referenceTimestamp == _lastDeadlineInterval(self, now)
             curDay == _dayOfWeek(_offsetTimestamp(referenceTimestamp,
                                                 self.timezoneOffset))
             nextDay == _nextAlarmDay(self, curDay)
             daysAway == IF nextDay > curDay
                         THEN nextDay - curDay
                         ELSE 7 - curDay + _nextAlarmDay(self, 0)
         IN  Return(self, referenceTimestamp + daysAway * DAY)

timeToNextDeadline(self, now) ==
    IF ~started(self) THEN Revert(self, "NOT_STARTED")
    ELSE LET next == nextDeadlineTimestamp(self, now)
         IN  IF next.err # "OK" THEN Revert(self, next.err)
             ELSE IF next.ret < now THEN Revert(self, "PANIC")
             ELSE Return(self, next.ret - now)

----------------------------------------------------------------------------
(* The environment: block.timestamp and the arguments callers pass *)

\* Bounds of the model: the last day of each grid of instants, and the
\* number of confirmations recorded.
MaxDay == 1

MaxDayInit == 0

MaxDayMissed == 22

MaxDayWindow == 1

MaxDayDeadline == 8

MaxDayCompliant == 10

MaxEntries == 2

\* Bounds of the client's model: the longest time to the next deadline the
\* chain reports, the calls of initAlarmState under way at once, and the
\* fetches of the user's alarms started.
MaxCountdown == 6

MaxInFlight == 2

MaxFetches == 3

\* 2023-11-05 00:00:00 UTC, a Sunday
Genesis == 19666 * DAY

NoCall == [fn |-> "none", err |-> "OK", ret |-> 0]

Called(fn, r) == [fn |-> fn, err |-> r.err, ret |-> r.ret]

----------------------------------------------------------------------------
(* The client: one UserAlarmStore.  alarmState holds the status and the    *)
(* time to the next deadline, << >> while it is undefined and <<n>> when   *)
(* it is the bigint n.  interval is the variable holding the timer's       *)
(* handle, timerRunning tells whether that timer is still set in the       *)
(* browser, and initAlarmStateCalls counts the calls of initAlarmState     *)
(* that have not returned yet.                                              *)

AlarmStatuses == {"INACTIVE", "ACTIVE", "CANCELLED"}

countdownInterval == 1

\* The truth value JavaScript gives an optional bigint
Truthy(t) == t # << >> /\ t[1] # 0

\* A store as UserAlarmStore leaves it: the status given, no time loaded,
\* no timer, and the first call of initAlarmState under way
UserAlarmStore(status) ==
    [ alarmState          |-> [status |-> status, timeToNextDeadline |-> << >>],
      interval            |-> "undefined",
      timerRunning        |-> FALSE,
      initAlarmStateCalls |-> 1 ]

\* The subscriber of alarmState, run after every update of it
alarmStateSubscriber(store) ==
    LET s == store.alarmState
        withInterval ==
            IF /\ store.interval = "undefined"
               /\ s.status = "ACTIVE"
               /\ Truthy(s.timeToNextDeadline)
            THEN [store EXCEPT !.interval = "set", !.timerRunning = TRUE]
            ELSE store
        withRequery ==
            IF Truthy(s.timeToNextDeadline) /\ s.timeToNextDeadline[1] <= 0
            THEN [withInterval EXCEPT !.initAlarmStateCalls = @ + 1]
            ELSE withInterval
    IN  IF s.status # "ACTIVE"
        THEN [withRequery EXCEPT !.timerRunning = FALSE]
        ELSE withRequery

timeToDeadlineUpdater(store, timeDeltaSeconds) ==
    LET s == store.alarmState
    IN  alarmStateSubscriber(
          IF ~Truthy(s.timeToNextDeadline) THEN store
          ELSE [store EXCEPT !.alarmState.timeToNextDeadline =
                                 <<s.timeToNextDeadline[1]
                                     - timeDeltaSeconds>>])

\* initAlarmState when its queries have returned status and, for an ACTIVE
\* alarm, timeToNextDeadline
initAlarmState(store, status, secondsToDeadline) ==
    alarmStateSubscriber(
      [store EXCEPT
         !.initAlarmStateCalls = @ - 1,
         !.alarmState =
            IF status = "ACTIVE"
            THEN [status |-> status,
                  timeToNextDeadline |-> <<secondsToDeadline>>]
            ELSE [@ EXCEPT !.status = status]])

syncTimeToDeadline(store, secondsToDeadline) ==
    alarmStateSubscriber(
      [store EXCEPT !.alarmState.timeToNextDeadline = <<secondsToDeadline>>])

\* The listener of the alarm's StatusChanged event, on the store
StatusChangedListener(store, newStatus) ==
    alarmStateSubscriber([store EXCEPT !.alarmState.status = newStatus])

----------------------------------------------------------------------------
(* The client: the record of the user's alarms.  objects is the heap of    *)
(* the Record objects the code holds, each the set of its entries          *)
(* [id, user, hub]; userAlarms is the object the store holds, and the      *)
(* currentAlarms of a fetch the object it took from the store.  Objects    *)
(* that nothing refers to any more are collected.  Of the subscribers of   *)
(* alarmQueryDeps the fetch and the clearing of the record are modelled,   *)
(* the event listeners are not.                                             *)

Users == {"undefined", "alice", "bob"}

Hubs == {"undefined", "hub1", "hub2"}

\* What getUserAlarmsByType returns: the alarms the hub holds for the user
AlarmsOf(user, hub) ==
    IF hub = "hub1" /\ user = "alice"
    THEN {[id |-> 1, user |-> user, hub |-> hub],
          [id |-> 3, user |-> user, hub |-> hub]}
    ELSE IF hub = "hub1" /\ user = "bob"
    THEN {[id |-> 2, user |-> user, hub |-> hub]}
    ELSE IF hub = "hub2" /\ user = "alice"
    THEN {[id |-> 1, user |-> user, hub |-> hub]}
    ELSE {}

\* The id of the alarm the modelled UserAlarmStore was made for
StoreId == 1

MakeUserAlarmsRecord ==
    [ alarmQueryDeps |-> [user |-> "undefined", hub |-> "undefined"],
      objects        |-> << {} >>,
      userAlarms     |-> 1,
      lastAccount    |-> "undefined",
      lastHub        |-> "undefined",
      fetches        |-> << >> ]

\* The objects still referred to: the store's, and those of the fetches
\* waiting for a UserAlarmStore
LiveObjects(rec) ==
    {rec.userAlarms}
      \cup {rec.fetches[i].currentAlarms :
              i \in {j \in 1..Len(rec.fetches) :
                       rec.fetches[j].pc = "UserAlarmStore"}}

\* The record with the objects nothing refers to collected
Collected(rec) ==
    LET live == LiveObjects(rec)
        place(i) == Cardinality({j \in live : j <= i})
        kept == [n \in 1..Cardinality(live) |->
                   rec.objects[CHOOSE i \in live : place(i) = n]]
    IN  [rec EXCEPT
           !.objects = kept,
           !.userAlarms = place(@),
           !.fetches = [i \in 1..Len(rec.fetches) |->
                          IF rec.fetches[i].pc = "UserAlarmStore"
                          THEN [rec.fetches[i] EXCEPT
                                   !.currentAlarms = place(@)]
                          ELSE rec.fetches[i]]]

\* The alarm a fetch turns to next: the one with the least id
NextAlarm(todo) == CHOOSE a \in todo : \A b \in todo : a.id <= b.id

\* The loop of a fetch over the alarms still to do, up to its next await or
\* to the write of the record at its end
RECURSIVE FetchLoop(_, _, _)
FetchLoop(rec, i, todo) ==
    LET ref == rec.fetches[i].currentAlarms
    IN  IF todo = {}
        THEN [rec EXCEPT !.userAlarms = ref,
                         !.fetches[i].pc = "done",
                         !.fetches[i].currentAlarms = 0,
                         !.fetches[i].todo = {}]
        ELSE LET alarm == NextAlarm(todo)
             IN  IF \E e \in rec.objects[ref] : e.id = alarm.id
                 THEN FetchLoop(rec, i, todo \ {alarm})
                 ELSE [rec EXCEPT !.fetches[i].pc = "UserAlarmStore",
                                  !.fetches[i].todo = todo]

\* A fetch when getUserAlarmsByType has returned
FetchAlarmsReturned(rec, i) ==
    LET f == rec.fetches[i]
        alarms == AlarmsOf(f.user, f.hub)
    IN  IF alarms = {}
        THEN [rec EXCEPT !.fetches[i].pc = "done"]
        ELSE FetchLoop([rec EXCEPT !.fetches[i].currentAlarms =
                                       rec.userAlarms],
                       i, alarms)

\* A fetch when the UserAlarmStore it waited for has been made
FetchStoreMade(rec, i) ==
    LET f == rec.fetches[i]
        alarm == NextAlarm(f.todo)
        written == [rec EXCEPT
                      !.objects[f.currentAlarms] =
                          {e \in @ : e.id # alarm.id} \cup {alarm}]
    IN  FetchLoop(written, i, f.todo \ {alarm})

\* The subscribers of alarmQueryDeps, run in the order they subscribed
\* when the user or the hub is set
alarmQueryDepsSubscribers(rec, user, hub) ==
    LET fetching ==
            IF user = "undefined" \/ hub = "undefined" THEN rec
            ELSE [rec EXCEPT !.fetches =
                     Append(@, [user |-> user, hub |-> hub,
                                pc |-> "getUserAlarmsByType",
                                currentAlarms |-> 0, todo |-> {}])]
        cleared ==
            IF \/ rec.lastAccount # "undefined" /\ user # rec.lastAccount
               \/ rec.lastHub # "undefined" /\ hub # rec.lastHub
            THEN [fetching EXCEPT !.objects = Append(@, {}),
                                  !.userAlarms = Len(rec.objects) + 1]
            ELSE fetching
    IN  [cleared EXCEPT !.alarmQueryDeps = [user |-> user, hub |-> hub],
                        !.lastAccount = user,
                        !.lastHub = hub]

removeAlarm(rec, id) ==
    [rec EXCEPT !.objects = Append(@, {e \in rec.objects[rec.userAlarms] :
                                          e.id # id}),
                !.userAlarms = Len(rec.objects) + 1]

----------------------------------------------------------------------------
(* Actions: one per call, and the passing of time *)

Init ==
    /\ schedule = EmptySchedule
    /\ blockTimestamp = Genesis
    /\ lastCall = NoCall
    /\ userAlarm = UserAlarmStore("INACTIVE")
    /\ userAlarmsRecord = MakeUserAlarmsRecord

InitCall(alarmTime, alarmDaysOfWeek, submissionWindow, timezoneOffset) ==
    LET r == init(schedule, alarmTime, alarmDaysOfWeek, submissionWindow,
                  timezoneOffset)
    IN  /\ schedule' = r.self
        /\ lastCall' = Called("init", r)
        /\ UNCHANGED <<blockTimestamp, clientVars>>

StartCall ==
    LET r == start(schedule, blockTimestamp)
    IN  /\ schedule' = r.self
        /\ lastCall' = Called("start", r)
        /\ UNCHANGED <<blockTimestamp, clientVars>>

RecordEntryCall ==
    LET r == recordEntry(schedule, blockTimestamp)
    IN  /\ SumEntries(schedule.alarmEntries, 1) < MaxEntries
        /\ schedule' = r.self
        /\ lastCall' = Called("recordEntry", r)
        /\ UNCHANGED <<blockTimestamp, clientVars>>

EntriesCall ==
    LET r == entries(schedule)
    IN  /\ schedule' = r.self
        /\ lastCall' = Called("entries", r)
        /\ UNCHANGED <<blockTimestamp, clientVars>>

InSubmissionWindowCall ==
    LET r == inSubmissionWindow(schedule, blockTimestamp)
    IN  /\ schedule' = r.self
        /\ lastCall' = Called("inSubmissionWindow", r)
        /\ UNCHANGED <<blockTimestamp, clientVars>>

MissedDeadlinesCall ==
    LET r == missedDeadlines(schedule, blockTimestamp)
    IN  /\ schedule' = r.self
        /\ lastCall' = Called("missedDeadlines", r)
        /\ UNCHANGED <<blockTimestamp, clientVars>>

NextDeadlineTimestampCall ==
    LET r == nextDeadlineTimestamp(schedule, blockTimestamp)
    IN  /\ schedule' = r.self
        /\ lastCall' = Called("nextDeadlineTimestamp", r)
        /\ UNCHANGED <<blockTimestamp, clientVars>>

TimeToNextDeadlineCall ==
    LET r == timeToNextDeadline(schedule, blockTimestamp)
    IN  /\ schedule' = r.self
        /\ lastCall' = Called("timeToNextDeadline", r)
        /\ UNCHANGED <<blockTimestamp, clientVars>>

\* The least element of a non-empty set of numbers
Min(S) == CHOOSE x \in S : \A y \in S : x <= y

\* The next block is mined at the next instant of the grid: the next of
\* the offsets on the day of now, or the first offset of the day after.
NextInstant(offsets, now) ==
    LET midnight == now - (now % DAY)
        laterToday == {o \in offsets : midnight + o > now}
    IN  IF laterToday # {}
        THEN midnight + Min(laterToday)
        ELSE midnight + DAY + Min(offsets)

Tick(maxDay, offsets) ==
    /\ NextInstant(offsets, blockTimestamp) < Genesis + (maxDay + 1) * DAY
    /\ blockTimestamp' = NextInstant(offsets, blockTimestamp)
    /\ lastCall' = NoCall
    /\ UNCHANGED <<schedule, clientVars>>

----------------------------------------------------------------------------
(* Actions of the client: the timer, the event and the returns of the      *)
(* asynchronous calls of a UserAlarmStore, and the changes of user and hub *)
(* and the steps of the fetches they start.                                 *)

IntervalFires ==
    /\ userAlarm.timerRunning
    /\ userAlarm' = timeToDeadlineUpdater(userAlarm, countdownInterval)
    /\ UNCHANGED <<contractVars, userAlarmsRecord>>

InitAlarmStateCall ==
    /\ userAlarm.initAlarmStateCalls < MaxInFlight
    /\ userAlarm' = [userAlarm EXCEPT !.initAlarmStateCalls = @ + 1]
    /\ UNCHANGED <<contractVars, userAlarmsRecord>>

InitAlarmStateReturns(status, secondsToDeadline) ==
    /\ userAlarm.initAlarmStateCalls > 0
    /\ userAlarm' = initAlarmState(userAlarm, status, secondsToDeadline)
    /\ UNCHANGED <<contractVars, userAlarmsRecord>>

SyncTimeToDeadlineReturns(secondsToDeadline) ==
    /\ userAlarm' = syncTimeToDeadline(userAlarm, secondsToDeadline)
    /\ UNCHANGED <<contractVars, userAlarmsRecord>>

StatusChanged(newStatus) ==
    /\ userAlarm' = StatusChangedListener(userAlarm, newStatus)
    /\ userAlarmsRecord' =
           IF newStatus = "CANCELLED"
           THEN Collected(removeAlarm(userAlarmsRecord, StoreId))
           ELSE userAlarmsRecord
    /\ UNCHANGED contractVars

AlarmQueryDepsSet(user, hub) ==
    /\ Len(userAlarmsRecord.fetches) < MaxFetches
    /\ userAlarmsRecord' =
           Collected(alarmQueryDepsSubscribers(userAlarmsRecord, user, hub))
    /\ UNCHANGED <<contractVars, userAlarm>>

GetUserAlarmsByTypeReturns(i) ==
    /\ userAlarmsRecord.fetches[i].pc = "getUserAlarmsByType"
    /\ userAlarmsRecord' = Collected(FetchAlarmsReturned(userAlarmsRecord, i))
    /\ UNCHANGED <<contractVars, userAlarm>>

UserAlarmStoreMade(i) ==
    /\ userAlarmsRecord.fetches[i].pc = "UserAlarmStore"
    /\ userAlarmsRecord' = Collected(FetchStoreMade(userAlarmsRecord, i))
    /\ UNCHANGED <<contractVars, userAlarm>>

----------------------------------------------------------------------------
(* SpecCountdown: one UserAlarmStore, whose queries return any status and  *)
(* a time to the next deadline of 0 to MaxCountdown seconds.                *)

NextCountdown ==
    \/ IntervalFires
    \/ InitAlarmStateCall
    \/ \E status \in AlarmStatuses, t \in 0..MaxCountdown :
          InitAlarmStateReturns(status, t)
    \/ \E t \in 0..MaxCountdown : SyncTimeToDeadlineReturns(t)
    \/ \E status \in AlarmStatuses : StatusChanged(status)

SpecCountdown == Init /\ [][NextCountdown]_vars

----------------------------------------------------------------------------
(* SpecUserAlarms: the record of the user's alarms while the user and the  *)
(* hub change and the fetches they started go on.                           *)

NextUserAlarms ==
    \/ \E user \in Users, hub \in Hubs : AlarmQueryDepsSet(user, hub)
    \/ \E i \in 1..Len(userAlarmsRecord.fetches) :
          GetUserAlarmsByTypeReturns(i)
    \/ \E i \in 1..Len(userAlarmsRecord.fetches) : UserAlarmStoreMade(i)

SpecUserAlarms == Init /\ [][NextUserAlarms]_vars

----------------------------------------------------------------------------
(* Spec: the whole life of a schedule over two days.  Calls are made at    *)
(* the edges of the submission window of an 08:00 alarm and one second     *)
(* apart.                                                                    *)

DayOffsets == {0, 1, 25200, 27000, 27001, 27002, 28800, 28801}

AlarmTimeArgs == {28800, 86400}

AlarmDaysArgs == { << >>, <<2, 5>>, <<2, 8>> }

SubmissionWindowArgs == {1800, 86400, 90000}

TimezoneOffsetArgs == {0, 1800}

Next ==
    \/ \E a \in AlarmTimeArgs, d \in AlarmDaysArgs,
          w \in SubmissionWindowArgs, z \in TimezoneOffsetArgs :
          InitCall(a, d, w, z)
    \/ StartCall
    \/ RecordEntryCall
    \/ EntriesCall
    \/ InSubmissionWindowCall
    \/ MissedDeadlinesCall
    \/ NextDeadlineTimestampCall
    \/ TimeToNextDeadlineCall
    \/ Tick(MaxDay, DayOffsets)

Spec == Init /\ [][Next]_vars

----------------------------------------------------------------------------
(* SpecInit: init called with every combination of valid and invalid        *)
(* arguments, on schedules in every stage of their life.                    *)

InitDayOffsets == {27001, 27002, 28801}

InitAlarmTimeArgs == {28800, 86399, 86400}

InitAlarmDaysArgs ==
    { << >>, <<2, 5>>, <<5, 2>>, <<2, 2>>, <<0, 2>>, <<2, 8>>, <<7>>,
      <<1, 2, 3, 4, 5, 6, 7>>, <<1, 2, 3, 4, 5, 6, 7, 7>>,
      <<1, 2, 3, 4, 5, 6, 7, 8>> }

InitSubmissionWindowArgs == {1800}

InitTimezoneOffsetArgs ==
    {0, 3600, -39600, 1800, -1800, 43200, -43200}

NextInit ==
    \/ \E a \in InitAlarmTimeArgs, d \in InitAlarmDaysArgs,
          w \in InitSubmissionWindowArgs, z \in InitTimezoneOffsetArgs :
          InitCall(a, d, w, z)
    \/ StartCall
    \/ RecordEntryCall
    \/ Tick(MaxDayInit, InitDayOffsets)

SpecInit == Init /\ [][NextInit]_vars

----------------------------------------------------------------------------
(* SpecMissed: schedules left unconfirmed for three weeks, queried at and   *)
(* one second after every instant a deadline can fall on.                   *)

MissedDayOffsets == {0, 1, 25200, 25201, 28800, 28801, 82800, 82801}

MissedAlarmTimeArgs == {0, 28800}

MissedAlarmDaysArgs == { <<2, 5>>, <<1, 7>>, <<4>> }

MissedSubmissionWindowArgs == {3600}

MissedTimezoneOffsetArgs == {0, 3600}

NextMissed ==
    \/ \E a \in MissedAlarmTimeArgs, d \in MissedAlarmDaysArgs,
          w \in MissedSubmissionWindowArgs, z \in MissedTimezoneOffsetArgs :
          InitCall(a, d, w, z)
    \/ StartCall
    \/ MissedDeadlinesCall
    \/ Tick(MaxDayMissed, MissedDayOffsets)

SpecMissed == Init /\ [][NextMissed]_vars

----------------------------------------------------------------------------
(* SpecWindow: alarms at midnight and at 08:00 local time, in UTC and one   *)
(* hour east of it, with calls at both edges of the 30 minute window before *)
(* each deadline, inside it and after the deadline.                          *)

WindowDayOffsets ==
    {0, 1, 27000, 27001, 27900, 28800, 28801, 28860, 84600, 84601,
     23400, 23401, 25200, 25201, 81000, 81001, 82800, 82801}

WindowAlarmTimeArgs == {0, 28800}

WindowAlarmDaysArgs == { <<2, 5>> }

WindowSubmissionWindowArgs == {0, 1800}

WindowTimezoneOffsetArgs == {0, 3600}

NextWindow ==
    \/ \E a \in WindowAlarmTimeArgs, d \in WindowAlarmDaysArgs,
          w \in WindowSubmissionWindowArgs, z \in WindowTimezoneOffsetArgs :
          InitCall(a, d, w, z)
    \/ StartCall
    \/ RecordEntryCall
    \/ InSubmissionWindowCall
    \/ Tick(MaxDayWindow, WindowDayOffsets)

SpecWindow == Init /\ [][NextWindow]_vars

----------------------------------------------------------------------------
(* SpecDeadline: the next deadline asked for over more than a week, for     *)
(* alarms on two days, on the first and last day of the week, on one day    *)
(* and on every day.                                                         *)

DeadlineDayOffsets == {0, 1, 25200, 25201, 28800, 28801, 82800, 82801}

DeadlineAlarmTimeArgs == {0, 28800}

DeadlineAlarmDaysArgs ==
    { <<2, 5>>, <<1, 7>>, <<4>>, <<1, 2, 3, 4, 5, 6, 7>> }

DeadlineSubmissionWindowArgs == {1800}

DeadlineTimezoneOffsetArgs == {0, 3600}

NextDeadline ==
    \/ \E a \in DeadlineAlarmTimeArgs, d \in DeadlineAlarmDaysArgs,
          w \in DeadlineSubmissionWindowArgs,
          z \in DeadlineTimezoneOffsetArgs :
          InitCall(a, d, w, z)
    \/ StartCall
    \/ NextDeadlineTimestampCall
    \/ TimeToNextDeadlineCall
    \/ Tick(MaxDayDeadline, DeadlineDayOffsets)

SpecDeadline == Init /\ [][NextDeadline]_vars

----------------------------------------------------------------------------
(* SpecCompliant: a schedule initialised once and started once, as the      *)
(* alarm contracts do, with confirmations recorded and missed deadlines     *)
(* counted over more than a week, for alarms at local midnight and at 08:00 *)
(* on two days of the week and on one.                                       *)

CompliantDayOffsets == {0, 1, 25200, 25201, 28800, 28801, 82800, 82801}

CompliantAlarmTimeArgs == {0, 28800}

CompliantAlarmDaysArgs == { <<2, 5>>, <<4>> }

CompliantSubmissionWindowArgs == {1800, 90000}

CompliantTimezoneOffsetArgs == {0, 3600}

NextCompliant ==
    \/ /\ ~schedule.initialized
       /\ \E a \in CompliantAlarmTimeArgs, d \in CompliantAlarmDaysArgs,
             w \in CompliantSubmissionWindowArgs,
             z \in CompliantTimezoneOffsetArgs :
             InitCall(a, d, w, z)
    \/ /\ ~started(schedule)
       /\ StartCall
    \/ RecordEntryCall
    \/ MissedDeadlinesCall
    \/ Tick(MaxDayCompliant, CompliantDayOffsets)

SpecCompliant == Init /\ [][NextCompliant]_vars

----------------------------------------------------------------------------
(* Claims about missedDeadlines, checked under SpecMissed *)

NoEntries(self) == SumEntries(self.alarmEntries, 1) = 0

\* The days of the week a schedule's alarm is set for
AlarmDaySet(self) == {self.alarmDays[i] : i \in 1..Len(self.alarmDays)}

\* The number of deadline instants D with activationTimestamp <= D < now:
\* the instants a whole number of days after activationTimestamp (which is
\* at the alarm's local time of day) whose local weekday is an alarm day.
ScheduledDeadlines(self, now) ==
    LET A == self.activationTimestamp
    IN  IF now <= A THEN 0
        ELSE Cardinality(
               {k \in 0..((now - A) \div DAY) :
                   /\ A + k * DAY < now
                   /\ _dayOfWeek(_offsetTimestamp(A + k * DAY,
                                                  self.timezoneOffset))
                        \in AlarmDaySet(self)})

\* C1: while only time passes (no init, start or recordEntry) on a started
\* schedule whose activation time has come, missedDeadlines never decreases.
C1_MissedDeadlinesMonotone ==
    [][ ( /\ started(schedule)
          /\ blockTimestamp >= schedule.activationTimestamp
          /\ blockTimestamp' > blockTimestamp
          /\ schedule' = schedule )
        => missedDeadlines(schedule', blockTimestamp').ret
             >= missedDeadlines(schedule, blockTimestamp).ret ]_vars

\* C2: with no entries recorded, missedDeadlines returns the number of
\* scheduled deadline instants D with activationTimestamp <= D < now (0
\* before activationTimestamp).
C2_MissedEqualsScheduledDeadlines ==
    ( /\ lastCall.fn = "missedDeadlines"
      /\ lastCall.err = "OK"
      /\ NoEntries(schedule) )
    => lastCall.ret = ScheduledDeadlines(schedule, blockTimestamp)

\* The scenario of C3: alarms on Monday and Thursday at 00:00 UTC, activated
\* at a Monday 00:00 UTC, nothing recorded, queried exactly 21 days later.
C3_Scenario ==
    /\ schedule.alarmDays = <<2, 5>>
    /\ schedule.alarmTime = 0
    /\ schedule.timezoneOffset = 0
    /\ schedule.submissionWindow = 3600
    /\ started(schedule)
    /\ schedule.activationTimestamp % DAY = 0
    /\ _dayOfWeek(schedule.activationTimestamp) = 2
    /\ NoEntries(schedule)
    /\ blockTimestamp = schedule.activationTimestamp + 21 * DAY
    /\ lastCall.fn = "missedDeadlines"

\* C3: in that scenario missedDeadlines returns 6.
C3_ThreeWeeksMissSix ==
    C3_Scenario => (lastCall.err = "OK" /\ lastCall.ret = 6)

C3_Witness == C3_Scenario /\ lastCall.err = "OK" /\ lastCall.ret = 6

----------------------------------------------------------------------------
(* Claims about the life of a schedule, checked under Spec *)

\* The four fields init sets from its arguments
Config(self) ==
    <<self.alarmTime, self.alarmDays, self.submissionWindow,
      self.timezoneOffset>>

\* The functions under the started modifier
StartedFns ==
    {"recordEntry", "entries", "inSubmissionWindow", "missedDeadlines",
     "nextDeadlineTimestamp", "timeToNextDeadline"}

\* C4 as stated: once activationTimestamp is nonzero it never changes.
C4_ActivationFixedOnceSet ==
    [][ schedule.activationTimestamp # 0
        => schedule'.activationTimestamp = schedule.activationTimestamp ]_vars

\* C4 as amended: activationTimestamp changes only by a successful init,
\* which resets it to 0, and by a successful start, which sets it to the
\* next instant at the alarm's time of day, whatever it was before;
\* recordEntry, the queries and failing calls leave it alone.
C4_ActivationSetOnlyByInitAndStart ==
    [][ /\ ( schedule'.activationTimestamp # schedule.activationTimestamp
             => lastCall'.fn \in {"init", "start"} /\ lastCall'.err = "OK" )
        /\ ( lastCall'.fn = "init" /\ lastCall'.err = "OK"
             => schedule'.activationTimestamp = 0 )
        /\ ( lastCall'.fn = "start" /\ lastCall'.err = "OK"
             => schedule'.activationTimestamp
                  = _nextDeadlineInterval(schedule, blockTimestamp) ) ]_vars

\* A schedule that was started and confirmed, then initialized again:
\* its activationTimestamp is back to 0.
C4_Witness ==
    /\ lastCall.fn = "init"
    /\ lastCall.err = "OK"
    /\ schedule.lastEntryTime > 0
    /\ schedule.activationTimestamp = 0

\* C7 as stated: after the first successful init the configuration never
\* changes.
C7_ConfigImmutable ==
    [][ schedule.initialized => Config(schedule') = Config(schedule) ]_vars

\* C7 as amended: init on an initialized schedule succeeds whenever its
\* arguments are valid and stores them; the configuration changes only by
\* a successful init, never by start, recordEntry, a query or a failing
\* call.
C7_ConfigSetOnlyByInit ==
    /\ [][ Config(schedule') # Config(schedule)
           => lastCall'.fn = "init" /\ lastCall'.err = "OK" ]_vars
    /\ [](\A a \in AlarmTimeArgs, d \in AlarmDaysArgs,
             w \in SubmissionWindowArgs, z \in TimezoneOffsetArgs :
             ( /\ schedule.initialized
               /\ _validateDaysArr(d)
               /\ a < DAY
               /\ -43200 < z /\ z < 43200 /\ z % HOUR = 0 )
             => LET r == init(schedule, a, d, w, z)
                IN  r.err = "OK" /\ Config(r.self) = <<a, d, w, z>>)

\* A schedule holding a confirmation, which no schedule with a window of
\* 90000 can record, initialized again with a window of 90000.
C7_Witness ==
    /\ lastCall.fn = "init"
    /\ lastCall.err = "OK"
    /\ schedule.lastEntryTime > 0
    /\ schedule.submissionWindow = 90000

\* C8: a call that fails leaves every field of the schedule as it was.
C8_FailingCallChangesNothing ==
    [][ lastCall'.fn # "none" /\ lastCall'.err # "OK"
        => schedule' = schedule ]_vars

\* A confirmation refused outside the submission window, on a schedule that
\* holds an earlier confirmation.
C8_Witness ==
    /\ lastCall.fn = "recordEntry"
    /\ lastCall.err = "NOT_IN_SUBMISSION_WINDOW"
    /\ schedule.lastEntryTime > 0
    /\ schedule.lastEntryTime < blockTimestamp

C10_DoubleSubmissionGuard ==
    [][ ( /\ lastCall'.fn = "recordEntry"
          /\ started(schedule)
          /\ schedule.lastEntryTime > 0 )
        => LET since == blockTimestamp - schedule.lastEntryTime
           IN  /\ ( since = 1
                    => lastCall'.err = "ALREADY_SUBMITTED_TODAY" )
               /\ ( since < DAY - schedule.submissionWindow
                    => lastCall'.err = "ALREADY_SUBMITTED_TODAY" )
               /\ ( since = DAY - schedule.submissionWindow
                    => lastCall'.err # "ALREADY_SUBMITTED_TODAY" ) ]_vars

----------------------------------------------------------------------------
(* Claims about the validation init makes, checked under SpecInit *)

RECURSIVE StrictlyIncreasingFrom(_, _)
StrictlyIncreasingFrom(seq, i) ==
    IF i >= Len(seq) THEN TRUE
    ELSE seq[i] < seq[i + 1] /\ StrictlyIncreasingFrom(seq, i + 1)

\* C5: the alarmDays of an initialized schedule are 1 to 7 days of the
\* week, each in 1..7, strictly increasing.
C5_StoredDaysStrictlyIncreasing ==
    schedule.initialized
    => /\ Len(schedule.alarmDays) \in 1..7
       /\ \A i \in 1..Len(schedule.alarmDays) : schedule.alarmDays[i] \in 1..7
       /\ StrictlyIncreasingFrom(schedule.alarmDays, 1)

\* A timezone offset init must refuse
OffsetOutOfRange(z) == z <= -43200 \/ z >= 43200 \/ z % HOUR # 0

\* C6: init fails for an alarm time of 86400 or more, with
\* INVALID_ALARM_TIME when the days are valid (the days are tested first);
\* it fails for a timezone offset at or beyond 12 hours or not a whole
\* number of hours, with INVALID_TIMEZONE_OFFSET when the days and alarm
\* time are valid; and an init that fails changes no field.
C6_InitRejectsAndChangesNothing ==
    \A a \in InitAlarmTimeArgs, d \in InitAlarmDaysArgs,
       w \in InitSubmissionWindowArgs, z \in InitTimezoneOffsetArgs :
       LET r == init(schedule, a, d, w, z)
       IN  /\ ( a >= DAY => r.err # "OK" )
           /\ ( a >= DAY /\ _validateDaysArr(d)
                => r.err = "INVALID_ALARM_TIME" )
           /\ ( OffsetOutOfRange(z) => r.err # "OK" )
           /\ ( OffsetOutOfRange(z) /\ _validateDaysArr(d) /\ a < DAY
                => r.err = "INVALID_TIMEZONE_OFFSET" )
           /\ ( r.err # "OK" => r.self = schedule )
           /\ ( lastCall.fn = "init" /\ lastCall.err # "OK"
                => lastCall.err \in {"INVALID_DAYS", "INVALID_ALARM_TIME",
                                     "INVALID_TIMEZONE_OFFSET"} )

\* An init refused for its timezone offset on a schedule that is started
\* and holds a confirmation, all of which it still holds.
C6_Witness ==
    /\ lastCall.fn = "init"
    /\ lastCall.err = "INVALID_TIMEZONE_OFFSET"
    /\ started(schedule)
    /\ schedule.lastEntryTime > 0

----------------------------------------------------------------------------
(* Claims about the submission window, checked under SpecWindow *)

\* The local time of day at now, in seconds after local midnight
LocalTimeOfDay(self, now) == (now + self.timezoneOffset) % DAY

\* The next instant at or after now at which the local time of day is the
\* alarm time
NextAlarmInstant(self, now) ==
    now + ((self.alarmTime + DAY - LocalTimeOfDay(self, now)) % DAY)

\* C11: whenever the next instant at the alarm's time of day is less than
\* submissionWindow away, inSubmissionWindow returns true, also when the
\* window starts on the local day before the deadline.
C11_WindowIsTrailingInterval ==
    ( /\ lastCall.fn = "inSubmissionWindow"
      /\ started(schedule)
      /\ NextAlarmInstant(schedule, blockTimestamp) - blockTimestamp
           < schedule.submissionWindow )
    => (lastCall.err = "OK" /\ lastCall.ret = TRUE)

\* C12: recordEntry succeeds only when the local weekday of now is one of
\* alarmDays, so the counter of every weekday that is not an alarm day is 0
\* in every reachable state.
C12_EntriesOnlyOnAlarmDays ==
    /\ [](\A d \in 1..7 :
            d \notin AlarmDaySet(schedule) => schedule.alarmEntries[d] = 0)
    /\ [][ (lastCall'.fn = "recordEntry" /\ lastCall'.err = "OK")
           => _dayOfWeek(_offsetTimestamp(blockTimestamp,
                                          schedule.timezoneOffset))
                \in AlarmDaySet(schedule) ]_vars

\* C13: init validates submissionWindow: every initialized schedule holds a
\* submissionWindow above 0, and recordEntry never aborts on the subtraction
\* 86400 - submissionWindow.
C13_SubmissionWindowValidated ==
    /\ schedule.initialized => schedule.submissionWindow > 0
    /\ ~ ( /\ lastCall.fn = "recordEntry"
           /\ lastCall.err = "PANIC"
           /\ schedule.submissionWindow > DAY )

C15_RecordEntryEffect ==
    [][ (lastCall'.fn = "recordEntry" /\ lastCall'.err = "OK")
        => LET localDay ==
                   _dayOfWeek(blockTimestamp + schedule.timezoneOffset)
           IN  /\ schedule'.lastEntryTime = blockTimestamp
               /\ \A d \in 1..7 :
                      schedule'.alarmEntries[d]
                        = schedule.alarmEntries[d]
                            + (IF d = localDay THEN 1 ELSE 0)
               /\ Config(schedule') = Config(schedule)
               /\ schedule'.initialized = schedule.initialized
               /\ schedule'.activationTimestamp
                    = schedule.activationTimestamp
               /\ entries(schedule').err = "OK"
               /\ entries(schedule').ret = entries(schedule).ret + 1 ]_vars

\* A confirmation recorded at the local-midnight deadline one hour east of
\* UTC, where the local weekday is the day after the UTC weekday.
C15_Witness ==
    /\ lastCall.fn = "recordEntry"
    /\ lastCall.err = "OK"
    /\ schedule.lastEntryTime = blockTimestamp
    /\ _dayOfWeek(blockTimestamp + schedule.timezoneOffset)
         # _dayOfWeek(blockTimestamp)
    /\ schedule.alarmEntries[
           _dayOfWeek(blockTimestamp + schedule.timezoneOffset)] > 0

\* C16: through every sequence of init, start, recordEntry and queries,
\* re-initialisation and restart included, none of the seven counters ever
\* decreases, and entries() returns the sum of the seven counters.
C16_CountersMonotone ==
    /\ [][ \A d \in 1..7 :
               schedule'.alarmEntries[d] >= schedule.alarmEntries[d] ]_vars
    /\ []( (lastCall.fn = "entries" /\ lastCall.err = "OK")
           => lastCall.ret
                = schedule.alarmEntries[1] + schedule.alarmEntries[2]
                  + schedule.alarmEntries[3] + schedule.alarmEntries[4]
                  + schedule.alarmEntries[5] + schedule.alarmEntries[6]
                  + schedule.alarmEntries[7] )

\* entries() answering 1 on a schedule that was initialised again with a 30
\* minute window, and restarted, after a confirmation was recorded at
\* midnight, eight hours before the deadline, under a window of a whole day.
C16_Witness ==
    /\ lastCall.fn = "entries"
    /\ lastCall.err = "OK"
    /\ lastCall.ret = 1
    /\ schedule.lastEntryTime = Genesis
    /\ schedule.submissionWindow = 1800

----------------------------------------------------------------------------
(* Claims about the next deadline, checked under SpecDeadline *)

\* The earliest instant at or after now at which the local time of day is
\* the alarm time and the local weekday is an alarm day
EarliestDeadline(self, now) ==
    LET first == NextAlarmInstant(self, now)
    IN  Min({ first + k * DAY : k \in
                { j \in 0..7 :
                    _dayOfWeek(first + j * DAY + self.timezoneOffset)
                      \in AlarmDaySet(self) } })

\* C17: on a started schedule nextDeadlineTimestamp returns the earliest
\* instant at or after now whose local weekday is an alarm day and whose
\* local time of day is alarmTime, also when that instant is in the week
\* after now.
C17_NextDeadlineIsEarliest ==
    (lastCall.fn = "nextDeadlineTimestamp" /\ started(schedule))
    => /\ lastCall.err = "OK"
       /\ lastCall.ret = EarliestDeadline(schedule, blockTimestamp)
       /\ lastCall.ret >= blockTimestamp
       /\ LocalTimeOfDay(schedule, lastCall.ret) = schedule.alarmTime
       /\ _dayOfWeek(lastCall.ret + schedule.timezoneOffset)
            \in AlarmDaySet(schedule)

\* The next deadline asked for on Thursday after that day's deadline, with
\* the alarm on Monday and Thursday: the answer is Monday of the next week.
C17_Witness ==
    /\ lastCall.fn = "nextDeadlineTimestamp"
    /\ lastCall.err = "OK"
    /\ schedule.alarmDays = <<2, 5>>
    /\ _dayOfWeek(blockTimestamp + schedule.timezoneOffset) = 5
    /\ _deadlinePassedToday(schedule, blockTimestamp)
    /\ _dayOfWeek(lastCall.ret + schedule.timezoneOffset) = 2
    /\ lastCall.ret - blockTimestamp > 3 * DAY

\* C18: on a started schedule timeToNextDeadline returns
\* nextDeadlineTimestamp - now without aborting, and the result is at least
\* 0 and less than 7 * 86400.
C18_TimeToNextDeadlineBounds ==
    (lastCall.fn = "timeToNextDeadline" /\ started(schedule))
    => /\ lastCall.err = "OK"
       /\ lastCall.ret
            = nextDeadlineTimestamp(schedule, blockTimestamp).ret
                - blockTimestamp
       /\ 0 <= lastCall.ret
       /\ lastCall.ret < 7 * DAY

\* The time to the next deadline asked for one second after the deadline of
\* an alarm set for one day of the week: one second less than a week.
C18_Witness ==
    /\ lastCall.fn = "timeToNextDeadline"
    /\ lastCall.err = "OK"
    /\ Len(schedule.alarmDays) = 1
    /\ lastCall.ret = 7 * DAY - 1

----------------------------------------------------------------------------
(* Claims about start and about confirmations of the same deadline *)

\* C19: start on an initialized schedule succeeds and sets
\* activationTimestamp to the instant A with now <= A < now + 86400 whose
\* local time of day is alarmTime, whether or not A falls on an alarm day,
\* and changes no other field.
C19_StartEffect ==
    [][ (lastCall'.fn = "start" /\ schedule.initialized)
        => LET A == schedule'.activationTimestamp
           IN  /\ lastCall'.err = "OK"
               /\ blockTimestamp <= A
               /\ A < blockTimestamp + DAY
               /\ (A + schedule.timezoneOffset) % DAY = schedule.alarmTime
               /\ schedule' = [schedule EXCEPT !.activationTimestamp = A]
       ]_vars

\* A schedule started on a Sunday at the very second of its alarm, set for
\* Monday and Thursday: it is activated at that second.
C19_Witness ==
    /\ lastCall.fn = "start"
    /\ lastCall.err = "OK"
    /\ schedule.activationTimestamp = blockTimestamp
    /\ _dayOfWeek(blockTimestamp + schedule.timezoneOffset)
         \notin AlarmDaySet(schedule)

\* C20: under every configuration init accepts, no two successful
\* recordEntry calls at instants t1 < t2 are made on the same local day: a
\* successful call does not follow an earlier confirmation of the same
\* local day.
C20_OneConfirmationPerDeadline ==
    [][ ( /\ lastCall'.fn = "recordEntry"
          /\ lastCall'.err = "OK"
          /\ schedule.lastEntryTime > 0
          /\ schedule.lastEntryTime < blockTimestamp )
        => (blockTimestamp + schedule.timezoneOffset) \div DAY
             # (schedule.lastEntryTime + schedule.timezoneOffset) \div DAY
      ]_vars

----------------------------------------------------------------------------
(* Claims about a participant who confirms every deadline, checked under    *)
(* SpecCompliant                                                             *)

\* The number of deadline instants D on weekday d with
\* activationTimestamp <= D < now
PassedDeadlinesOn(self, now, d) ==
    LET A == self.activationTimestamp
    IN  IF now <= A THEN 0
        ELSE Cardinality(
               {k \in 0..((now - A) \div DAY) :
                   /\ A + k * DAY < now
                   /\ _dayOfWeek(A + k * DAY + self.timezoneOffset) = d})

\* Every deadline that has passed since activationTimestamp was confirmed:
\* each alarm day counts at least as many confirmations as it had deadlines
AllPassedDeadlinesConfirmed(self, now) ==
    \A d \in AlarmDaySet(self) :
        self.alarmEntries[d] >= PassedDeadlinesOn(self, now, d)

\* The local day of an instant, counted from the epoch
LocalDay(self, t) == (t + self.timezoneOffset) \div DAY

\* missedDeadlines charges nothing when every deadline passed since
\* activationTimestamp was confirmed
ConfirmedDeadlinesNotCharged ==
    ( /\ lastCall.fn = "missedDeadlines"
      /\ started(schedule)
      /\ AllPassedDeadlinesConfirmed(schedule, blockTimestamp) )
    => (lastCall.err = "OK" /\ lastCall.ret = 0)

\* C21: a participant who confirms every deadline is never charged a miss,
\* and can always do so: when every deadline passed since
\* activationTimestamp was confirmed, missedDeadlines returns 0; and a call
\* of recordEntry inside the submission window, the first one or one on a
\* later local day than the last confirmation, is never refused.
C21_CompliantNeverCharged ==
    /\ []ConfirmedDeadlinesNotCharged
    /\ [][ ( /\ lastCall'.fn = "recordEntry"
             /\ started(schedule)
             /\ inSubmissionWindow(schedule, blockTimestamp).ret = TRUE
             /\ \/ schedule.lastEntryTime = 0
                \/ LocalDay(schedule, blockTimestamp)
                     > LocalDay(schedule, schedule.lastEntryTime) )
           => lastCall'.err = "OK" ]_vars

----------------------------------------------------------------------------
(* Claims about the client *)

\* C22: for an ACTIVE alarm with a positive time to the next deadline the
\* countdown timer is set, and when the time counted down reaches 0 or
\* less, initAlarmState is called to query the alarm's state again.
C22_CountdownRequeries ==
    /\ []( ( /\ userAlarm.alarmState.status = "ACTIVE"
             /\ Truthy(userAlarm.alarmState.timeToNextDeadline)
             /\ userAlarm.alarmState.timeToNextDeadline[1] > 0 )
           => userAlarm.interval # "undefined" )
    /\ [][ ( /\ userAlarm.alarmState.status = "ACTIVE"
             /\ userAlarm'.alarmState.status = "ACTIVE"
             /\ userAlarm.timerRunning
             /\ userAlarm.alarmState.timeToNextDeadline # << >>
             /\ userAlarm.alarmState.timeToNextDeadline[1] > 0
             /\ userAlarm'.alarmState.timeToNextDeadline
                  = <<userAlarm.alarmState.timeToNextDeadline[1]
                        - countdownInterval>>
             /\ userAlarm'.alarmState.timeToNextDeadline[1] <= 0 )
           => userAlarm'.initAlarmStateCalls
                > userAlarm.initAlarmStateCalls ]_vars

\* C23: the record of the user's alarms holds only alarms of the user and
\* hub now connected.
C23_RecordHoldsCurrentAlarmsOnly ==
    \A e \in userAlarmsRecord.objects[userAlarmsRecord.userAlarms] :
        /\ e.user = userAlarmsRecord.alarmQueryDeps.user
        /\ e.hub = userAlarmsRecord.alarmQueryDeps.hub

====
